---- MODULE Spec2Model ----
(***************************************************************************)
(* Model of pcpug-rs (src/src/main.rs): a command-line tool that fetches   *)
(* PubChem compound records by name, prints a textual report of each and   *)
(* plots the bonds of the first conformer.                                 *)
(*                                                                         *)
(* Text is modelled as a sequence of tokens (strings); a compound name is  *)
(* a sequence of one-character strings.  Option<T> is <<>> for None and    *)
(* <<v>> for Some(v).  Rust vectors are 0-based, sequences here 1-based.   *)
(***************************************************************************)
EXTENDS Integers, Sequences, FiniteSets, TLC

VARIABLES
    argv,       \* env::args(): program name followed by the positional arguments
    dirExists,  \* filesystem: whether PNGDIR exists
    pc,         \* position of main
    names,      \* the filtered names (main.rs:260)
    idx,        \* position of the for loop in names (1-based), 0 before the loop
    response,   \* the response of the current reqwest::get
    compound,   \* the Compound decoded for the current name
    stdout,     \* lines written to standard output
    stderr,     \* lines written to the diagnostic stream
    fetches,    \* URLs requested so far
    files,      \* image paths handed to BitMapBackend so far
    drawn,      \* one entry per plot_molecule call: [file, segs]
    exitCode,   \* process exit status, -1 while running
    abortedBy,  \* what ended the run early, "none" otherwise
    backend,    \* the answer of the plotters backend to the latest plot_molecule call
    trace       \* history of the steps taken: [kind, idx]

vars == <<argv, dirExists, pc, names, idx, response, compound, stdout, stderr,
          fetches, files, drawn, exitCode, abortedBy, backend, trace>>

---------------------------------------------------------------------------
(* Bounds *)

MaxRunArgs == 1     \* positional arguments of a run, besides the run over ExampleArgs
MaxLen == 2         \* length of a decoded array (atoms, bonds, stereo, iupac)
MaxTables == 2      \* bond tables in a compound's bond list
MaxDev == 1         \* scalar fields deviating from all-present / all-absent
MaxIdx == 1         \* largest bond endpoint value; a conformer has up to MaxIdx + 1 points
MaxBonds == 2       \* bond records over all tables handed to plot_molecule

---------------------------------------------------------------------------
(* Generic helpers *)

None == <<>>
Some(v) == <<v>>
IsSome(o) == o # <<>>
Unwrap(o) == o[1]

BoundedSeqs(S, n) == UNION {[1..k -> S] : k \in 0..n}

Range(s) == {s[i] : i \in 1..Len(s)}

RECURSIVE Flatten(_)
Flatten(ss) == IF ss = <<>> THEN <<>> ELSE Head(ss) \o Flatten(Tail(ss))

RECURSIVE SumLens(_)
SumLens(ss) == IF ss = <<>> THEN 0 ELSE Len(Head(ss)) + SumLens(Tail(ss))

---------------------------------------------------------------------------
(* Constants of the program *)

BASEURL == "https://pubchem.ncbi.nlm.nih.gov/rest/pug/compound/name/"
RETURNTYPE == "/JSON"
PNGDIR == "png_out/"

ProgName == <<"p","c","p","u","g">>

(* The names of the specification's filtering example. *)
Str123 == <<"1","2","3">>
Aspirin == <<"A","s","p","i","r","i","n">>
Str45_6 == <<"4","5",".","6">>
Glucose == <<"G","l","u","c","o","s","e">>
EmptyStr == <<>>

ExampleArgs == <<Str123, Aspirin, Str45_6, Glucose>>

ArgPool == {Str123, Aspirin, Str45_6, Glucose, EmptyStr}

---------------------------------------------------------------------------
(* Argument filter, main.rs:260-263 *)

(* char::is_numeric: the Unicode numeric classes; of the characters used   *)
(* here these are the decimal digits.                                      *)
is_numeric(c) == c \in {"0","1","2","3","4","5","6","7","8","9"}

(* arg.chars().all(char::is_numeric): vacuously true of the empty string. *)
AllNumeric(arg) == \A i \in 1..Len(arg) : is_numeric(arg[i])

KeepArg(arg) == ~AllNumeric(arg)

(* args.into_iter().skip(1).filter(..).collect() *)
FilterNames(args) == SelectSeq(SubSeq(args, 2, Len(args)), KeepArg)

---------------------------------------------------------------------------
(* Data model, main.rs:13-108.  A JSON object is a function from the keys *)
(* it carries to their values; the decoded Compound has every key, each an *)
(* Option.                                                                 *)

U32Keys == <<"cid", "h_bond_donor_count", "h_bond_acceptor_count",
             "rotatable_bond_count", "heavy_atom_count">>
F64Keys == <<"molecular_weight", "tpsa", "xlogp", "exact_mass", "complexity">>
StrKeys == <<"molecular_formula", "inchi", "inchikey", "isomeric_smiles">>

ScalarKeys == Range(U32Keys) \cup Range(F64Keys) \cup Range(StrKeys) \cup {"charge"}

SectionKeys == {"atoms", "bonds", "coords", "props", "stereo", "iupac"}

(* The keys serde reads for struct Compound (main.rs:86-108). *)
CompoundKeys == ScalarKeys \cup SectionKeys

(* serde's derived decoder: a key that is missing from the object becomes  *)
(* None, a key it does not know is ignored.                                *)
DecodeCompound(root) ==
    [k \in CompoundKeys |-> IF k \in DOMAIN root THEN Some(root[k]) ELSE None]

(* response.json::<Compound>(): fails on a body that is not JSON of the    *)
(* expected shape, otherwise decodes the root object.                      *)
InvalidBody == [json |-> FALSE, root |-> <<>>]
JsonBody(root) == [json |-> TRUE, root |-> root]

Decode(body) ==
    IF body.json THEN [ok |-> TRUE, value |-> DecodeCompound(body.root)]
    ELSE [ok |-> FALSE, value |-> <<>>]

---------------------------------------------------------------------------
(* Formatting, main.rs:110-215 *)

(* {:?} of a value by its Rust type. *)
DebugValue(type, v) ==
    CASE type = "f64" -> <<ToString(v), ".0">>
      [] type = "str" -> <<"\"", v, "\"">>
      [] OTHER -> <<ToString(v)>>

(* A formatter that writes nothing for None. *)
DebugOptionBlank(type, o) ==
    IF IsSome(o) THEN <<"Some(">> \o DebugValue(type, Unwrap(o)) \o <<")">>
    ELSE <<"">>

(* {:?} of an Option<T>. *)
DebugOption(type, o) ==
    IF IsSome(o) THEN <<"Some(">> \o DebugValue(type, Unwrap(o)) \o <<")">>
    ELSE <<"None">>

(* {:?} of a Vec<f64>. *)
RECURSIVE DebugItems(_)
DebugItems(xs) ==
    IF xs = <<>> THEN <<>>
    ELSE IF Len(xs) = 1 THEN DebugValue("f64", xs[1])
    ELSE DebugValue("f64", xs[1]) \o <<", ">> \o DebugItems(Tail(xs))

DebugVec(xs) == <<"[">> \o DebugItems(xs) \o <<"]">>

TypeOf(k) ==
    IF k \in Range(F64Keys) THEN "f64"
    ELSE IF k \in Range(StrKeys) THEN "str"
    ELSE IF k = "charge" THEN "i32"
    ELSE "u32"

(* The scalar lines in the order of main.rs:114-128. *)
ScalarOrder == <<"cid", "molecular_formula", "molecular_weight", "inchi", "inchikey",
                 "isomeric_smiles", "tpsa", "xlogp", "exact_mass", "complexity",
                 "h_bond_donor_count", "h_bond_acceptor_count",
                 "rotatable_bond_count", "heavy_atom_count", "charge">>

Label(k) ==
    CASE k = "cid" -> "CID"
      [] k = "molecular_formula" -> "Molecular Formula"
      [] k = "molecular_weight" -> "Molecular Weight"
      [] k = "inchi" -> "InChI"
      [] k = "inchikey" -> "InChIKey"
      [] k = "isomeric_smiles" -> "Isomeric SMILES"
      [] k = "tpsa" -> "TPSA"
      [] k = "xlogp" -> "XLogP"
      [] k = "exact_mass" -> "Exact Mass"
      [] k = "complexity" -> "Complexity"
      [] k = "h_bond_donor_count" -> "H-Bond Donor Count"
      [] k = "h_bond_acceptor_count" -> "H-Bond Acceptor Count"
      [] k = "rotatable_bond_count" -> "Rotatable Bond Count"
      [] k = "heavy_atom_count" -> "Heavy Atom Count"
      [] k = "charge" -> "Charge"
      [] k = "atoms" -> "Atoms"
      [] k = "bonds" -> "Bonds"
      [] k = "coords" -> "Coordinates"
      [] k = "props" -> "Properties"
      [] k = "stereo" -> "Stereo Information"
      [] k = "iupac" -> "IUPAC Names"

Rule == <<"---------------------">>

(* writeln!(f, "<Label>: {:?}", self.<field>) *)
ScalarLine(c, k) == <<Label(k), ": ">> \o DebugOption(TypeOf(k), c[k])

HeaderLines(c) ==
    <<<<"Compound Information:">>, Rule>>
    \o [i \in 1..Len(ScalarOrder) |-> ScalarLine(c, ScalarOrder[i])]

(* A section's result: the lines written and whether an index panicked.    *)
(* The arguments of a writeln! are evaluated before anything is written,   *)
(* so the line whose index is out of range is not written.                 *)
Written(lines) == [lines |-> lines, panicked |-> FALSE]

Min(a, b) == IF a <= b THEN a ELSE b

(* main.rs:132-134: one line per element, reading atoms.aid[i]; the index  *)
(* panics at the first i that aid does not have.                           *)
AtomsSection(c) ==
    IF IsSome(c.atoms) THEN
        LET atoms == Unwrap(c.atoms)
            done == Min(Len(atoms.element), Len(atoms.aid))
        IN  [lines |-> <<<<"Atoms:">>>> \o
                       [i \in 1..done |->
                           <<"  Atom ID: ", ToString(atoms.aid[i]),
                             ", Element: ", ToString(atoms.element[i])>>],
             panicked |-> done < Len(atoms.element)]
    ELSE Written(<<<<"Atoms: None">>>>)

(* main.rs:141-150: for i in 0..aid1.len(), reading aid1[i], aid2[i] and   *)
(* order[i]; the index panics at the first i that aid2 or order lacks.     *)
BondLines(bond) ==
    LET done == Min(Len(bond.aid1), Min(Len(bond.aid2), Len(bond.order)))
    IN  [lines |-> [i \in 1..done |->
                       <<"  Bond ", ToString(i), ": Atom1 ", ToString(bond.aid1[i]),
                         ", Atom2 ", ToString(bond.aid2[i]),
                         ", Order ", ToString(bond.order[i])>>],
         panicked |-> done < Len(bond.aid1)]

(* The loop of main.rs:141-150 is written for one bond table while the     *)
(* field holds a list of tables (main.rs:89); it is applied to each table  *)
(* of the list in turn and stops at the first table that panics.           *)
RECURSIVE BondTables(_)
BondTables(tables) ==
    IF tables = <<>> THEN Written(<<>>)
    ELSE LET first == BondLines(Head(tables))
         IN  IF first.panicked THEN first
             ELSE LET rest == BondTables(Tail(tables))
                  IN  [lines |-> first.lines \o rest.lines, panicked |-> rest.panicked]

(* main.rs:139-153 *)
BondsSection(c) ==
    IF IsSome(c.bonds) THEN
        LET body == BondTables(Unwrap(c.bonds))
        IN  [lines |-> <<<<"Bonds:">>>> \o body.lines, panicked |-> body.panicked]
    ELSE Written(<<<<"Bonds: None">>>>)

(* main.rs:155-168: the conformers of all coordinate sets, numbered across. *)
CoordsSection(c) ==
    IF IsSome(c.coords) THEN
        LET coords == Unwrap(c.coords)
            all == Flatten([i \in 1..Len(coords) |-> coords[i].conformers])
        IN  Written(<<<<"Coordinates:">>>> \o
                    [i \in 1..Len(all) |->
                        <<"  Conformer ", ToString(i), ":\\nX = ">> \o DebugVec(all[i].x)
                        \o <<",\nY = ">> \o DebugVec(all[i].y)])
    ELSE Written(<<<<"Coordinates: None">>>>)

(* {:?} of struct PropertyValue (derived Debug). *)
DebugPropertyValue(v) ==
    <<"PropertyValue { fval: ">> \o DebugOption("f64", v.fval)
    \o <<", ival: ">> \o DebugOption("u32", v.ival)
    \o <<", sval: ">> \o DebugOption("str", v.sval)
    \o <<", binary: ">> \o DebugOption("str", v.binary) \o <<" }">>

(* main.rs:170-181 *)
PropsSection(c) ==
    IF IsSome(c.props) THEN
        LET props == Unwrap(c.props)
        IN  Written(<<<<"Properties:">>>> \o
                    [i \in 1..Len(props) |->
                        <<"  Property: ">> \o DebugOption("str", props[i].urn.label)
                        \o <<", Value: ">> \o DebugPropertyValue(props[i].value)])
    ELSE Written(<<<<"Properties: None">>>>)

(* main.rs:186-199: a stereo entry writes a line only if it has a          *)
(* tetrahedral record; the number is the entry's position.                 *)
StereoLine(i, s) ==
    IF IsSome(s.tetrahedral) THEN
        LET t == Unwrap(s.tetrahedral)
        IN  <<<<"  Stereo ", ToString(i), ": Above = ", ToString(t.above),
                ", Below = ", ToString(t.below), ", Bottom = ", ToString(t.bottom),
                ", Center = ", ToString(t.center), ", Parity = ", ToString(t.parity),
                ", Top = ", ToString(t.top), ", Type = ", ToString(t.ttype)>>>>
    ELSE <<>>

(* main.rs:183-203 *)
StereoSection(c) ==
    IF IsSome(c.stereo) THEN
        LET stereo == Unwrap(c.stereo)
        IN  Written(<<<<"Stereo Information:">>>> \o
                    Flatten([i \in 1..Len(stereo) |-> StereoLine(i, stereo[i])]))
    ELSE Written(<<<<"Stereo Information: None">>>>)

(* main.rs:208: name.name.as_deref().unwrap_or("Unknown") *)
IupacLine(n) == <<"  ", IF IsSome(n.name) THEN Unwrap(n.name) ELSE "Unknown">>

(* main.rs:205-212 *)
IupacSection(c) ==
    IF IsSome(c.iupac) THEN
        LET iupac == Unwrap(c.iupac)
        IN  Written(<<<<"IUPAC Names:">>>> \o [i \in 1..Len(iupac) |-> IupacLine(iupac[i])])
    ELSE Written(<<<<"IUPAC Names: None">>>>)

SectionOrder == <<"atoms", "bonds", "coords", "props", "stereo", "iupac">>

Section(c, k) ==
    CASE k = "atoms" -> AtomsSection(c)
      [] k = "bonds" -> BondsSection(c)
      [] k = "coords" -> CoordsSection(c)
      [] k = "props" -> PropsSection(c)
      [] k = "stereo" -> StereoSection(c)
      [] k = "iupac" -> IupacSection(c)

(* The sections from position n on, each preceded by a rule line; nothing  *)
(* follows a section that panicked.                                        *)
RECURSIVE SectionsFrom(_, _)
SectionsFrom(c, n) ==
    IF n > Len(SectionOrder) THEN Written(<<>>)
    ELSE LET this == Section(c, SectionOrder[n])
         IN  IF this.panicked
             THEN [lines |-> <<Rule>> \o this.lines, panicked |-> TRUE]
             ELSE LET rest == SectionsFrom(c, n + 1)
                  IN  [lines |-> <<Rule>> \o this.lines \o rest.lines,
                       panicked |-> rest.panicked]

(* impl fmt::Display for Compound, main.rs:110-215 *)
Render(c) ==
    LET body == SectionsFrom(c, 1)
    IN  [lines |-> HeaderLines(c) \o body.lines, panicked |-> body.panicked]

---------------------------------------------------------------------------
(* plot_molecule, main.rs:217-247 *)

(* format!("{}{}.png", PNGDIR, name) *)
PngName(name) == <<PNGDIR>> \o name \o <<".png">>

(* A lookup that takes the last conformer of the first set. *)
LastConformer(coords) ==
    IF Len(coords) >= 1 /\ Len(coords[1].conformers) >= 1
    THEN Some(coords[1].conformers[Len(coords[1].conformers)])
    ELSE None

(* coords.get(0).and_then(|c| c.conformers.get(0)) *)
FirstConformer(coords) ==
    IF Len(coords) >= 1 /\ Len(coords[1].conformers) >= 1
    THEN Some(coords[1].conformers[1])
    ELSE None

(* v[idx] of a Rust vector: in range iff idx < v.len() *)
InRange(v, index) == index + 1 <= Len(v)
At(v, index) == v[index + 1]

(* The iterations of `for i in 0..bond.aid1.len()` of one table: aid1[i]   *)
(* always exists, aid2[i] only if aid2 is long enough.                     *)
BondRecords(bond) ==
    [i \in 1..Len(bond.aid1) |->
        [a1 |-> bond.aid1[i],
         a2 |-> IF i <= Len(bond.aid2) THEN Some(bond.aid2[i]) ELSE None]]

(* `for bond in bonds { for i in .. }` in iteration order *)
AllBondRecords(bonds) == Flatten([t \in 1..Len(bonds) |-> BondRecords(bonds[t])])

(* main.rs:231-236: the four index expressions of one iteration *)
RecordInRange(conformer, rec) ==
    /\ IsSome(rec.a2)
    /\ InRange(conformer.x, rec.a1) /\ InRange(conformer.y, rec.a1)
    /\ InRange(conformer.x, Unwrap(rec.a2)) /\ InRange(conformer.y, Unwrap(rec.a2))

(* main.rs:234-237: the two points of the LineSeries *)
Segment(conformer, rec) ==
    << <<At(conformer.x, rec.a1), At(conformer.y, rec.a1)>>,
       <<At(conformer.x, Unwrap(rec.a2)), At(conformer.y, Unwrap(rec.a2))>> >>

(* main.rs:229-241: draws the records in order; an index out of range      *)
(* panics, a draw_series error returns Err (`?`); seriesFails says whether *)
(* the backend refuses the next draw_series call.                          *)
RECURSIVE DrawBonds(_, _, _)
DrawBonds(conformer, recs, seriesFails) ==
    IF recs = <<>> THEN [segs |-> <<>>, outcome |-> "ok"]
    ELSE IF ~RecordInRange(conformer, Head(recs)) THEN [segs |-> <<>>, outcome |-> "panic"]
    ELSE IF seriesFails THEN [segs |-> <<>>, outcome |-> "err"]
    ELSE LET rest == DrawBonds(conformer, Tail(recs), seriesFails)
         IN  [segs |-> <<Segment(conformer, Head(recs))>> \o rest.segs,
              outcome |-> rest.outcome]

NoConformerNotice == <<"No conformers available for plotting.">>

(* plot_molecule(name, coords, bonds); fail is the answer of the plotters  *)
(* backend: "none", "setup" (fill, build_cartesian_2d or the mesh returns  *)
(* an error, main.rs:220-227) or "series" (draw_series does, main.rs:239). *)
PlotMolecule(name, coords, bonds, fail) ==
    LET conformer == FirstConformer(coords)
    IN  IF fail = "setup"
        THEN [file |-> PngName(name), segs |-> <<>>, outcome |-> "err", notice |-> <<>>]
        ELSE IF IsSome(conformer)
        THEN LET d == DrawBonds(Unwrap(conformer), AllBondRecords(bonds), fail = "series")
             IN  [file |-> PngName(name), segs |-> d.segs, outcome |-> d.outcome,
                  notice |-> <<>>]
        ELSE [file |-> PngName(name), segs |-> <<>>, outcome |-> "ok",
              notice |-> <<NoConformerNotice>>]

BackendAnswers == {"none", "setup", "series"}

---------------------------------------------------------------------------
(* Sample data *)

SampleScalar(k) ==
    CASE TypeOf(k) = "str" -> "x"
      [] TypeOf(k) = "i32" -> -1
      [] OTHER -> 1

ScalarRoot(present) == [k \in present |-> SampleScalar(k)]

EmptyRoot == ScalarRoot({})

(* A table whose three arrays have the given lengths; aid1[i] = i - 1 and  *)
(* aid2[i] = i, so a bond joins consecutive positions.                     *)
BondTable(n1, n2, n3) ==
    [aid1 |-> [i \in 1..n1 |-> i - 1], aid2 |-> [i \in 1..n2 |-> i],
     order |-> [i \in 1..n3 |-> 1]]

AtomTable(na, ne) == [aid |-> [i \in 1..na |-> i], element |-> [i \in 1..ne |-> 6]]

(* Conformer number id with nx and ny coordinates, distinct per conformer. *)
SampleConformer(id, nx, ny) ==
    [x |-> [i \in 1..nx |-> 10 * id + i], y |-> [i \in 1..ny |-> 10 * id + i + 5]]

CoordSet(confs) == [conformers |-> confs]

SampleTetrahedral ==
    [above |-> 1, below |-> 2, bottom |-> 3, center |-> 4, parity |-> 1, top |-> 5,
     ttype |-> 1]

SampleProp ==
    [urn |-> [datatype |-> Some(1), label |-> None, name |-> None, release |-> None,
              software |-> None, source |-> None, version |-> None],
     value |-> [fval |-> None, ival |-> Some(1), sval |-> None, binary |-> None]]

SampleCoords == <<CoordSet(<<SampleConformer(1, 3, 3), SampleConformer(2, 3, 3)>>)>>

(* The response roots of a modelled run. *)
RunRoots ==
    { EmptyRoot,
      "PC_Compounds" :> <<ScalarRoot({"cid"})>>,
      "Fault" :> "PUGREST.NotFound",
      ScalarRoot({"cid", "charge"}),
      "coords" :> SampleCoords,
      "bonds" :> <<BondTable(2, 2, 2)>>,
      ("atoms" :> AtomTable(3, 3)) @@ ("coords" :> SampleCoords)
          @@ ("bonds" :> <<BondTable(2, 2, 2)>>),
      ("coords" :> SampleCoords) @@ ("bonds" :> <<BondTable(2, 2, 2), BondTable(3, 3, 3)>>),
      ("coords" :> <<CoordSet(<<>>)>>) @@ ("bonds" :> <<BondTable(1, 1, 1)>>),
      "atoms" :> AtomTable(1, 2),
      ("coords" :> SampleCoords) @@ ("bonds" :> <<BondTable(2, 1, 2)>>) }

NetErr == [ok |-> FALSE, status |-> 0, body |-> InvalidBody]
Reply(status, body) == [ok |-> TRUE, status |-> status, body |-> body]

(* What reqwest::get can answer: a transport error, or a response of any   *)
(* status (the status is not an error for reqwest::get).                   *)
FetchOutcomes ==
    {NetErr}
    \cup {Reply(200, b) : b \in {InvalidBody} \cup {JsonBody(r) : r \in RunRoots}}
    \cup {Reply(404, b) : b \in {InvalidBody, JsonBody("Fault" :> "PUGREST.NotFound")}}

---------------------------------------------------------------------------
(* main, main.rs:249-280 *)

UsageLine ==
    <<"src/main.rs usage :: cargo run <compound_name> <compound_name> <compound_name> ... (at least one additional argument)">>
NoNamesLine ==
    <<"\nmain() :: ERROR -> None of the compounds entered are purely alphabetical">>

(* What the runtime writes when main returns Err, and when a thread panics *)
ErrorLine(what) == <<"Error: ", what>>
PanicLine == <<"thread 'main' panicked">>

(* An entry of the history: the step, the position in names it belongs to, *)
(* and for a print step whether the compound has both coords and bonds.    *)
Event(kind, i) == [kind |-> kind, idx |-> i, both |-> FALSE]
PrintEvent(i, c) ==
    [kind |-> "print", idx |-> i, both |-> IsSome(c.coords) /\ IsSome(c.bonds)]

(* return from main with Ok (status 0), Err (status 1) or a panic (101) *)
Exit(code, by) ==
    /\ pc' = "done"
    /\ exitCode' = code
    /\ abortedBy' = by

(* format!("{}{}{}", BASEURL, name, RETURNTYPE) *)
Url(name) == <<BASEURL>> \o name \o <<RETURNTYPE>>

(* main.rs:273-274: both compound.coords and compound.bonds are Some *)
WantsPlot(c) == IsSome(c.coords) /\ IsSome(c.bonds)

(* A loop that steps over every second name. *)
NextIterationSkip ==
    IF idx + 1 < Len(names)
    THEN /\ idx' = idx + 2
         /\ pc' = "fetch"
         /\ UNCHANGED <<exitCode, abortedBy>>
    ELSE /\ idx' = idx
         /\ Exit(0, "none")

(* the end of one iteration of `for name in &names`: the next name, or     *)
(* `Ok(())` after the last one (main.rs:278-279)                           *)
NextIteration ==
    IF idx < Len(names)
    THEN /\ idx' = idx + 1
         /\ pc' = "fetch"
         /\ UNCHANGED <<exitCode, abortedBy>>
    ELSE /\ idx' = idx
         /\ Exit(0, "none")

Init ==
    /\ argv \in {<<ProgName>> \o a : a \in BoundedSeqs(ArgPool, MaxRunArgs) \cup {ExampleArgs}}
    /\ dirExists \in BOOLEAN
    /\ pc = "start"
    /\ names = <<>>
    /\ idx = 0
    /\ response = NetErr
    /\ compound = DecodeCompound(EmptyRoot)
    /\ stdout = <<>>
    /\ stderr = <<>>
    /\ fetches = <<>>
    /\ files = <<>>
    /\ drawn = <<>>
    /\ exitCode = -1
    /\ abortedBy = "none"
    /\ backend = "none"
    /\ trace = <<>>

(* main.rs:251-254: create PNGDIR unless it exists; `?` returns the error *)
EnsureDir ==
    /\ pc = "start"
    /\ trace' = Append(trace, Event("ensure_dir", 0))
    /\ \E created \in BOOLEAN :
          IF dirExists \/ created
          THEN /\ dirExists' = TRUE
               /\ pc' = "args"
               /\ UNCHANGED <<stderr, exitCode, abortedBy>>
          ELSE /\ stderr' = Append(stderr, ErrorLine("create_dir_all"))
               /\ Exit(1, "mkdir")
               /\ UNCHANGED dirExists
    /\ UNCHANGED <<argv, names, idx, response, compound, stdout, fetches, files, drawn,
                   backend>>

(* main.rs:255-259: no positional argument *)
Usage ==
    /\ pc = "args"
    /\ Len(argv) < 2
    /\ stdout' = Append(stdout, UsageLine)
    /\ Exit(0, "none")
    /\ UNCHANGED <<argv, dirExists, names, idx, response, compound, stderr, fetches,
                   files, drawn, backend, trace>>

(* main.rs:260-267: every argument filtered out *)
NoNames ==
    /\ pc = "args"
    /\ Len(argv) >= 2
    /\ FilterNames(argv) = <<>>
    /\ names' = FilterNames(argv)
    /\ stderr' = Append(stderr, NoNamesLine)
    /\ Exit(0, "none")
    /\ UNCHANGED <<argv, dirExists, idx, response, compound, stdout, fetches, files,
                   drawn, backend, trace>>

(* main.rs:260-268: the filtered names, then the first iteration *)
StartLoop ==
    /\ pc = "args"
    /\ Len(argv) >= 2
    /\ FilterNames(argv) # <<>>
    /\ names' = FilterNames(argv)
    /\ idx' = 1
    /\ pc' = "fetch"
    /\ UNCHANGED <<argv, dirExists, response, compound, stdout, stderr, fetches, files,
                   drawn, exitCode, abortedBy, backend, trace>>

(* main.rs:269-270: reqwest::get(&url).await? *)
Fetch ==
    /\ pc = "fetch"
    /\ fetches' = Append(fetches, Url(names[idx]))
    /\ trace' = Append(trace, Event("fetch", idx))
    /\ \E r \in FetchOutcomes :
          /\ response' = r
          /\ IF r.ok
             THEN /\ pc' = "parse"
                  /\ UNCHANGED <<stderr, exitCode, abortedBy>>
             ELSE /\ stderr' = Append(stderr, ErrorLine("reqwest"))
                  /\ Exit(1, "transport")
    /\ UNCHANGED <<argv, dirExists, names, idx, compound, stdout, files, drawn, backend>>

(* main.rs:271: response.json().await? *)
Parse ==
    /\ pc = "parse"
    /\ trace' = Append(trace, Event("parse", idx))
    /\ LET d == Decode(response.body)
       IN  IF d.ok
           THEN /\ compound' = d.value
                /\ pc' = "print"
                /\ UNCHANGED <<stderr, exitCode, abortedBy>>
           ELSE /\ stderr' = Append(stderr, ErrorLine("decode"))
                /\ Exit(1, "decode")
                /\ UNCHANGED compound
    /\ UNCHANGED <<argv, dirExists, names, idx, response, stdout, fetches, files, drawn,
                   backend>>

(* main.rs:272-274: println!("{}", compound), then the plot if coords and  *)
(* bonds are both present, else the next iteration                         *)
PrintReport ==
    /\ pc = "print"
    /\ trace' = Append(trace, PrintEvent(idx, compound))
    /\ LET r == Render(compound)
       IN  IF r.panicked
           THEN /\ stdout' = stdout \o r.lines
                /\ stderr' = Append(stderr, PanicLine)
                /\ Exit(101, "fmt_panic")
                /\ UNCHANGED idx
           ELSE /\ stdout' = stdout \o r.lines \o << <<>> >>
                /\ UNCHANGED stderr
                /\ IF WantsPlot(compound)
                   THEN /\ pc' = "plot"
                        /\ UNCHANGED <<idx, exitCode, abortedBy>>
                   ELSE NextIteration
    /\ UNCHANGED <<argv, dirExists, names, response, compound, fetches, files, drawn,
                   backend>>

(* main.rs:275: plot_molecule(name, &coords, &bonds)? *)
Plot ==
    /\ pc = "plot"
    /\ trace' = Append(trace, Event("plot", idx))
    /\ \E fail \in BackendAnswers :
          LET p == PlotMolecule(names[idx], Unwrap(compound.coords),
                                Unwrap(compound.bonds), fail)
          IN  /\ backend' = fail
              /\ files' = Append(files, p.file)
              /\ drawn' = Append(drawn, [file |-> p.file, segs |-> p.segs])
              /\ CASE p.outcome = "panic" ->
                        /\ stderr' = Append(stderr \o p.notice, PanicLine)
                        /\ Exit(101, "plot_panic")
                        /\ UNCHANGED idx
                   [] p.outcome = "err" ->
                        /\ stderr' = Append(stderr \o p.notice, ErrorLine("plotters"))
                        /\ Exit(1, "plot_err")
                        /\ UNCHANGED idx
                   [] OTHER ->
                        /\ stderr' = stderr \o p.notice
                        /\ NextIteration
    /\ UNCHANGED <<argv, dirExists, names, response, compound, stdout, fetches>>

Next == EnsureDir \/ Usage \/ NoNames \/ StartLoop \/ Fetch \/ Parse \/ PrintReport \/ Plot

Spec == Init /\ [][Next]_vars

TypeOK ==
    /\ pc \in {"start", "args", "fetch", "parse", "print", "plot", "done"}
    /\ exitCode \in {-1, 0, 1, 101}
    /\ (pc = "done") = (exitCode # -1)
    /\ idx \in 0..Len(names)

---------------------------------------------------------------------------
(* Decoding and rendering on their own: main has fetched the first name    *)
(* and the response body is any of FmtRoots (or not decodable).            *)

ScalarPatterns ==
    {S \in SUBSET ScalarKeys :
        Cardinality(S) <= MaxDev \/ Cardinality(S) >= Cardinality(ScalarKeys) - MaxDev}

StereoEntries == {[tetrahedral |-> None], [tetrahedral |-> Some(SampleTetrahedral)]}
IupacEntries == {[name |-> None], [name |-> Some("aspirin")]}

SampleSection(k) ==
    CASE k = "atoms" -> AtomTable(1, 1)
      [] k = "bonds" -> <<BondTable(1, 1, 1)>>
      [] k = "coords" -> <<CoordSet(<<SampleConformer(1, 1, 1)>>)>>
      [] k = "props" -> <<SampleProp>>
      [] k = "stereo" -> <<[tetrahedral |-> Some(SampleTetrahedral)], [tetrahedral |-> None]>>
      [] k = "iupac" -> <<[name |-> Some("aspirin")], [name |-> None]>>

SectionsRoot(present) == [k \in present |-> SampleSection(k)]

(* Bond tables whose aid2 and order arrays are as long as aid1 or one      *)
(* shorter.                                                                *)
NearLengths(n) == {m \in {n - 1, n} : m >= 0}

FmtBondTables ==
    {BondTable(t[1], t[2], t[3]) :
        t \in {u \in (0..MaxLen) \X (0..MaxLen) \X (0..MaxLen) :
                  u[2] \in NearLengths(u[1]) /\ u[3] \in NearLengths(u[1])}}

FmtAtoms == {"atoms" :> AtomTable(1, 1), "atoms" :> AtomTable(0, 1)}

FmtRoots ==
    {ScalarRoot(S) @@ SectionsRoot(P) : S \in ScalarPatterns, P \in {{}, SectionKeys}}
    \cup {ScalarRoot(S) @@ SectionsRoot(P) : S \in {{}, ScalarKeys}, P \in SUBSET SectionKeys}
    \cup {("stereo" :> st) @@ ("iupac" :> iu) :
            st \in BoundedSeqs(StereoEntries, MaxLen), iu \in BoundedSeqs(IupacEntries, MaxLen)}
    \cup {"bonds" :> bl : bl \in BoundedSeqs(FmtBondTables, MaxTables)}
    \cup {a @@ ("bonds" :> <<t>>) : a \in FmtAtoms, t \in FmtBondTables}

(* The state of main after the first reqwest::get has answered. *)
Fetched(name, reply) ==
    /\ argv = <<ProgName, name>>
    /\ dirExists = TRUE
    /\ pc = "parse"
    /\ names = <<name>>
    /\ idx = 1
    /\ response = reply
    /\ compound = DecodeCompound(EmptyRoot)
    /\ stdout = <<>>
    /\ stderr = <<>>
    /\ fetches = <<Url(name)>>
    /\ files = <<>>
    /\ drawn = <<>>
    /\ exitCode = -1
    /\ abortedBy = "none"
    /\ backend = "none"
    /\ trace = <<Event("ensure_dir", 0), Event("fetch", 1)>>

InitFmt ==
    \E body \in {InvalidBody} \cup {JsonBody(r) : r \in FmtRoots} :
        Fetched(Aspirin, Reply(200, body))

NextFmt == Parse \/ PrintReport

SpecFmt == InitFmt /\ [][NextFmt]_vars

---------------------------------------------------------------------------
(* plot_molecule on its own: main has printed the report of a compound     *)
(* that has coords and bonds, any of PlotCoords and PlotBondLists.         *)

Indices == 0..MaxIdx

PlotTable(a1, a2) == [aid1 |-> a1, aid2 |-> a2, order |-> [i \in 1..Len(a1) |-> 1]]

(* Tables of n records whose arrays are equally long, and tables as serde  *)
(* also decodes them, with aid2 one shorter than aid1.                     *)
EvenTables(n) ==
    {PlotTable(a1, a2) : a1 \in [1..n -> Indices], a2 \in [1..n -> Indices]}

ShortTables(n) ==
    IF n = 0 THEN {}
    ELSE {PlotTable(a1, a2) : a1 \in [1..n -> Indices], a2 \in [1..(n - 1) -> Indices]}

TotalRecords(bl) == SumLens([t \in 1..Len(bl) |-> bl[t].aid1])

(* Bond lists of no, one or two tables with at most MaxBonds records. *)
PlotBondLists ==
    {<<>>}
    \cup UNION {{<<t>> : t \in EvenTables(n) \cup ShortTables(n)} : n \in 0..MaxBonds}
    \cup UNION {UNION {{<<t, u>> : t \in EvenTables(n), u \in EvenTables(m)} :
                         m \in 0..(MaxBonds - n)} : n \in 0..MaxBonds}

FullConformer(id) == SampleConformer(id, MaxIdx + 1, MaxIdx + 1)

PlotCoords ==
    { <<>>, <<CoordSet(<<>>)>>, <<CoordSet(<<>>), CoordSet(<<FullConformer(3)>>)>>,
      <<CoordSet(<<FullConformer(1), FullConformer(2)>>), CoordSet(<<FullConformer(3)>>)>> }
    \cup {<<CoordSet(<<SampleConformer(1, n[1], n[2])>>)>> :
            n \in {m \in (0..(MaxIdx + 1)) \X (0..(MaxIdx + 1)) :
                      m[2] \in {m[1] - 1, m[1], m[1] + 1}}}

(* Every coordinate list with every bond list under one name, and the      *)
(* lists of at most one record under a second name.                        *)
PlotInputs ==
    {<<Aspirin, cs, bl>> : cs \in PlotCoords, bl \in PlotBondLists}
    \cup {<<Glucose, cs, bl>> : cs \in PlotCoords,
                                bl \in {l \in PlotBondLists : TotalRecords(l) <= 1}}

InitPlot ==
    \E in \in PlotInputs :
        LET name == in[1]
            root == ("coords" :> in[2]) @@ ("bonds" :> in[3])
        IN  /\ argv = <<ProgName, name>>
            /\ dirExists = TRUE
            /\ pc = "plot"
            /\ names = <<name>>
            /\ idx = 1
            /\ response = Reply(200, JsonBody(root))
            /\ compound = DecodeCompound(root)
            /\ stdout = Render(DecodeCompound(root)).lines \o << <<>> >>
            /\ stderr = <<>>
            /\ fetches = <<Url(name)>>
            /\ files = <<>>
            /\ drawn = <<>>
            /\ exitCode = -1
            /\ abortedBy = "none"
            /\ backend = "none"
            /\ trace = <<Event("ensure_dir", 0), Event("fetch", 1), Event("parse", 1),
                         PrintEvent(1, DecodeCompound(root))>>

NextPlot == Plot

SpecPlot == InitPlot /\ [][NextPlot]_vars

---------------------------------------------------------------------------
(* Properties *)

LastEvent == trace[Len(trace)]

Count(seq, x) == Cardinality({i \in 1..Len(seq) : seq[i] = x})

(* The JSON object of the current response. *)
Root == response.body.root

(* C1: a transport failure (network error or non-2xx status) while         *)
(* fetching a name is reported for that name and skipped, and the run is   *)
(* not aborted: the error does not end main, and a non-2xx response is not *)
(* decoded and printed as a report.                                        *)
C1_TransportFailureSkipsName ==
    /\ (pc = "done" /\ abortedBy = "transport") => Len(fetches) = Len(names)
    /\ (pc \in {"print", "plot"} /\ response.status # 200) => stderr # <<>>

(* What the specification's example treats as a numeric argument: digits   *)
(* with at most one decimal point ("123", "45.6").                         *)
IsNumberText(arg) ==
    /\ \E i \in 1..Len(arg) : is_numeric(arg[i])
    /\ \A i \in 1..Len(arg) : is_numeric(arg[i]) \/ arg[i] = "."
    /\ Cardinality({i \in 1..Len(arg) : arg[i] = "."}) <= 1

IsValidName(arg) == arg # <<>> /\ ~IsNumberText(arg)

FilterHasRun ==
    \/ pc \in {"fetch", "parse", "print", "plot"}
    \/ pc = "done" /\ abortedBy # "mkdir" /\ Len(argv) >= 2

(* C2: the argument filter drops every numeric argument and keeps the      *)
(* others in their original order; for ["123", "Aspirin", "45.6",          *)
(* "Glucose"] the filtered names are exactly ["Aspirin", "Glucose"].       *)
C2_FilterDropsNumericArguments ==
    FilterHasRun =>
        /\ names = SelectSeq(Tail(argv), IsValidName)
        /\ Tail(argv) = ExampleArgs => names = <<Aspirin, Glucose>>

(* C3: whenever no name is left to query (no positional argument, or all   *)
(* of them filtered out), main makes no request and no plot, prints the    *)
(* usage line or the diagnostic error, and returns successfully.           *)
C3_NoNamesNoRequest ==
    (pc = "done" /\ FilterNames(argv) = <<>>) =>
        /\ fetches = <<>>
        /\ files = <<>>
        /\ exitCode = 0
        /\ Len(argv) < 2 => stdout = <<UsageLine>>
        /\ Len(argv) >= 2 => stderr = <<NoNamesLine>>

(* The response is a JSON object with none of the compound's keys. *)
NoCompoundData == response.body.json /\ DOMAIN Root \cap CompoundKeys = {}

(* C4: for a name whose response has no compound data at the root, a "no   *)
(* result" diagnostic is emitted for that name, no plot file is written    *)
(* for it and the tool does not crash.                                     *)
C4_NoResultDiagnostic ==
    (trace # <<>> /\ LastEvent = Event("print", 1) /\ NoCompoundData) =>
        /\ stderr # <<>>
        /\ files = <<>>
        /\ pc # "plot"
        /\ exitCode # 101

(* C5: a plot failure for one name (a bond endpoint out of range for the   *)
(* first conformer) is reported as a skip and does not abort the run: the  *)
(* remaining names are still processed.                                    *)
C5_PlotFailureDoesNotAbort ==
    (pc = "done" /\ abortedBy = "plot_panic") => Len(fetches) = Len(names)

(* C9: on every execution path main ends with exit status 0. *)
C9_AlwaysExitsZero == pc = "done" => exitCode = 0

(* C10: names are processed strictly sequentially in filtered-list order,  *)
(* each as fetch, parse, print and then plot (plot only if coords and      *)
(* bonds are both present); the fetch of the next name starts only after   *)
(* the cycle of the previous one has finished; the output directory is     *)
(* ensured once, before the first fetch or plot.                           *)
C10_SequentialCycles ==
    /\ pc # "start" => (trace # <<>> /\ trace[1].kind = "ensure_dir")
    /\ (fetches # <<>> \/ files # <<>>) => dirExists
    /\ \A p \in 2..Len(trace) :
          LET e == trace[p]
              d == trace[p - 1]
          IN  /\ e.idx \in 1..Len(names)
              /\ CASE e.kind = "fetch" ->
                        \/ d.kind = "ensure_dir" /\ e.idx = 1
                        \/ /\ e.idx = d.idx + 1
                           /\ (d.kind = "print" /\ ~d.both) \/ d.kind = "plot"
                   [] e.kind = "parse" -> d.kind = "fetch" /\ d.idx = e.idx
                   [] e.kind = "print" -> d.kind = "parse" /\ d.idx = e.idx
                   [] e.kind = "plot" -> d.kind = "print" /\ d.idx = e.idx /\ d.both
                   [] OTHER -> FALSE
    /\ fetches = [i \in 1..Len(fetches) |-> <<BASEURL>> \o names[i] \o <<RETURNTYPE>>]
    /\ Len(fetches) = Cardinality({p \in 1..Len(trace) : trace[p].kind = "fetch"})
    /\ Len(files) = Cardinality({p \in 1..Len(trace) : trace[p].kind = "plot"})
    /\ pc = "done" /\ exitCode = 0 /\ names # <<>> => Len(fetches) = Len(names)

(* A run over three names that ended normally, the first plotted. *)
C10_Witness ==
    /\ pc = "done" /\ exitCode = 0
    /\ Len(names) = 3
    /\ Len(fetches) = 3
    /\ \E p \in 1..Len(trace) : trace[p].kind = "plot" /\ trace[p].idx = 1
    /\ \E p \in 1..Len(trace) : trace[p].kind = "print" /\ trace[p].idx = 2 /\ ~trace[p].both

---------------------------------------------------------------------------
(* Properties of plot_molecule (SpecPlot) *)

PlotName == names[1]
PlotCoordSets == Unwrap(compound.coords)
PlotBonds == Unwrap(compound.bonds)

(* The first coordinate set has a first conformer and every endpoint of    *)
(* every bond record is a position of its x and y arrays.                  *)
Plottable ==
    /\ Len(PlotCoordSets) >= 1
    /\ Len(PlotCoordSets[1].conformers) >= 1
    /\ LET cf == PlotCoordSets[1].conformers[1]
       IN  \A t \in 1..Len(PlotBonds) : \A i \in 1..Len(PlotBonds[t].aid1) :
              /\ i <= Len(PlotBonds[t].aid2)
              /\ PlotBonds[t].aid1[i] < Len(cf.x) /\ PlotBonds[t].aid1[i] < Len(cf.y)
              /\ PlotBonds[t].aid2[i] < Len(cf.x) /\ PlotBonds[t].aid2[i] < Len(cf.y)

ExpectedSegments ==
    LET cf == PlotCoordSets[1].conformers[1]
    IN  Flatten([t \in 1..Len(PlotBonds) |->
            [i \in 1..Len(PlotBonds[t].aid1) |->
                << <<cf.x[PlotBonds[t].aid1[i] + 1], cf.y[PlotBonds[t].aid1[i] + 1]>>,
                   <<cf.x[PlotBonds[t].aid2[i] + 1], cf.y[PlotBonds[t].aid2[i] + 1]>> >>]])

PlotReturned == pc = "done" /\ drawn # <<>>

(* C6: called with a first conformer and valid endpoints (and a backend    *)
(* that reports no error), plot_molecule draws exactly one segment per     *)
(* bond record over all tables, from (x[aid1[i]], y[aid1[i]]) to           *)
(* (x[aid2[i]], y[aid2[i]]) of the first conformer of the first set, and   *)
(* targets exactly the file png_out/<name>.png.                            *)
C6_OneSegmentPerBond ==
    (PlotReturned /\ backend = "none" /\ Plottable) =>
        /\ drawn = <<[file |-> <<"png_out/">> \o PlotName \o <<".png">>,
                      segs |-> ExpectedSegments]>>
        /\ Len(drawn[1].segs) = TotalRecords(PlotBonds)
        /\ files = << <<"png_out/">> \o PlotName \o <<".png">> >>
        /\ exitCode = 0

(* Two tables of one bond each, drawn from a set with several conformers. *)
C6_Witness ==
    /\ PlotReturned /\ backend = "none" /\ Plottable
    /\ Len(PlotBonds) = 2
    /\ Len(drawn[1].segs) = 2
    /\ Len(PlotCoordSets) = 2
    /\ Len(PlotCoordSets[1].conformers) = 2

---------------------------------------------------------------------------
(* Properties of decoding and rendering (SpecFmt) *)

Printed == trace # <<>> /\ LastEvent.kind = "print"
Completed == exitCode # 101

Absent(k) == k \notin DOMAIN Root

ScalarPos(k) == CHOOSE i \in 1..Len(ScalarOrder) : ScalarOrder[i] = k

NoneSection(k) ==
    CASE k = "atoms" -> <<"Atoms: None">>
      [] k = "bonds" -> <<"Bonds: None">>
      [] k = "coords" -> <<"Coordinates: None">>
      [] k = "props" -> <<"Properties: None">>
      [] k = "stereo" -> <<"Stereo Information: None">>
      [] k = "iupac" -> <<"IUPAC Names: None">>

LinesWith(first) == SelectSeq(stdout, LAMBDA l : l # <<>> /\ l[1] = first)

BondNumbers == [i \in 1..Len(LinesWith("  Bond ")) |-> LinesWith("  Bond ")[i][2]]

BondTablesIn == Root["bonds"]

AtomsRenderable ==
    Absent("atoms") \/ Len(Root["atoms"].aid) >= Len(Root["atoms"].element)

(* C7: for every decoded bond table, rendering completes and writes as     *)
(* many "Bond N" lines as the table is long, N = 1, 2, ... without gaps.   *)
C7_BondLinesMatchTable ==
    (Printed /\ ~Absent("bonds") /\ AtomsRenderable) =>
        /\ Completed
        /\ BondNumbers = Flatten([t \in 1..Len(BondTablesIn) |->
                                    [i \in 1..Len(BondTablesIn[t].aid1) |-> ToString(i)]])

AbsentScalarsAreNone ==
    \A k \in ScalarKeys :
        Absent(k) => stdout[2 + ScalarPos(k)] = <<Label(k), ": ", "None">>

(* the lines of the IUPAC section: the two-token lines that start "  " *)
IupacLines == LinesWith("  ")

StereoWithRecord ==
    Cardinality({i \in 1..Len(Root["stereo"]) : Root["stereo"][i].tetrahedral # None})

====
